---- MODULE Spec2Model ----
(***************************************************************************)
(* State-machine model of the two posterior samplers of the inverse-theory *)
(* practical: the Hamiltonian Monte Carlo notebook and the Metropolis-     *)
(* Hastings notebook (src/inverse-theory/Practical_1/05 - HMC.ipynb holds  *)
(* both).  Floating-point values that can become non-finite are values of  *)
(* an extended number domain (finite | +inf | -inf | NaN) with the IEEE    *)
(* rules numpy follows; array entries are integers.                        *)
(***************************************************************************)
EXTENDS Integers, Sequences, FiniteSets, TLC

\* ---------------------------------------------------------------- bounds
\* Largest requested sample count N.
MaxN == 2
\* Largest number of leap-frog steps Nt.
MaxNt == 2
\* Side length of the coefficient arrays (np.shape(g_igrf13)[0]).
Nc == 4
\* Squared coefficient norm above which the log-posterior oracle overflows.
OverflowAt == 40
\* Magnitude below which exp() underflows to 0.
UnderflowAt == 20

\* Maximum harmonic degree.
ell_max == 2

\* ------------------------------------------------ extended float values
Fin(x) == [k |-> "fin", v |-> x]
NaN == [k |-> "nan", v |-> 0]
PInf == [k |-> "inf", v |-> 1]
NInf == [k |-> "inf", v |-> -1]

IsNaN(a) == a.k = "nan"
IsFinite(a) == a.k = "fin"

\* a + b
FAdd(a, b) ==
  IF IsNaN(a) \/ IsNaN(b) THEN NaN
  ELSE IF a.k = "inf" /\ b.k = "inf" THEN (IF a.v = b.v THEN a ELSE NaN)
  ELSE IF a.k = "inf" THEN a
  ELSE IF b.k = "inf" THEN b
  ELSE Fin(a.v + b.v)

\* -a
FNeg(a) == IF IsNaN(a) THEN NaN ELSE [k |-> a.k, v |-> 0 - a.v]

\* a - b
FSub(a, b) == FAdd(a, FNeg(b))

\* a < b for operands that are not NaN
FBelow(a, b) ==
  IF a.k = "inf" THEN a.v = -1 /\ ~(b.k = "inf" /\ b.v = -1)
  ELSE IF b.k = "inf" THEN b.v = 1
  ELSE a.v < b.v

\* a >= b (False when an operand is NaN)
FGe(a, b) == ~IsNaN(a) /\ ~IsNaN(b) /\ ~FBelow(a, b)

\* a > b (False when an operand is NaN)
FGt(a, b) == ~IsNaN(a) /\ ~IsNaN(b) /\ FBelow(b, a)

\* a <= b (False when an operand is NaN)
FLe(a, b) == FGe(b, a)

\* np.minimum(a, b): propagates NaN
FMinimum(a, b) ==
  IF IsNaN(a) \/ IsNaN(b) THEN NaN
  ELSE IF FBelow(b, a) THEN b ELSE a

\* A positive finite value e^x, as np.exp returns it.
ExpOf(x) == [k |-> "exp", v |-> x]

\* np.exp(a): 0 for -inf and for arguments below the underflow threshold.
np_exp(a) ==
  IF IsNaN(a) THEN NaN
  ELSE IF a = PInf THEN PInf
  ELSE IF a = NInf THEN Fin(0)
  ELSE IF a.v < 0 - UnderflowAt THEN Fin(0)
  ELSE ExpOf(a.v)

\* a > b for a value a of np.exp and a uniform draw b (0 or e^x with x < 0)
PGt(a, b) ==
  IF IsNaN(a) THEN FALSE
  ELSE IF a = PInf THEN TRUE
  ELSE IF a = Fin(0) THEN FALSE
  ELSE b = Fin(0) \/ a.v > b.v

\* ------------------------------------------------------------- arrays
\* A (2,Nc,Nc) array is a function on the flat index set 0..2*Nc*Nc-1, in
\* the row-major order of reshape(2,Nc,Nc) and flatten(); an (Nc,Nc) array is
\* a function on 0..Nc*Nc-1.
Size == 2 * Nc * Nc
MatSize == Nc * Nc
At(c, i, j) == c * Nc * Nc + i * Nc + j
MatAt(i, j) == i * Nc + j
Degree(q) == (q \div Nc) % Nc
Order(q) == q % Nc

ZeroArr == [q \in 0..(Size - 1) |-> 0]
ZeroMat == [q \in 0..(MatSize - 1) |-> 0]

\* The (2,Nc,Nc) array whose two slices are a and b.
Stack(a, b) == [q \in 0..(Size - 1) |-> IF q < MatSize THEN a[q] ELSE b[q - MatSize]]

\* m[c,:,:]
Slice(a, c) == [q \in 0..(MatSize - 1) |-> a[c * MatSize + q]]

VAdd(a, b) == [q \in DOMAIN a |-> a[q] + b[q]]
VSub(a, b) == [q \in DOMAIN a |-> a[q] - b[q]]
VScale(c, a) == [q \in DOMAIN a |-> c * a[q]]
VNeg(a) == [q \in DOMAIN a |-> 0 - a[q]]

RECURSIVE DotUpTo(_, _, _)
DotUpTo(a, b, n) == IF n < 0 THEN 0 ELSE a[n] * b[n] + DotUpTo(a, b, n - 1)
\* np.dot(a.flatten(), b.flatten())
Dot(a, b) == DotUpTo(a, b, Size - 1)

\* 0.5*x, for the even x the model's draws produce
Half(x) == x \div 2

\* The entries of the triangular (degree, order) convention.
InTriangle(q) == Order(q) <= Degree(q) /\ Degree(q) <= ell_max

\* ------------------------------------------------------------ oracles
\* magnetic.log_posterior and magnetic.grad_posterior: pure functions of the
\* coefficients, the observations being fixed.
LpKinds == {"flat", "gauss", "nan"}
GradKinds == {"zero", "linear", "slope"}

RECURSIVE EnergyUpTo(_, _, _)
EnergyUpTo(g, h, n) ==
  IF n < 0 THEN 0
  ELSE (IF InTriangle(n) THEN g[n] * g[n] + h[n] * h[n] ELSE 0)
       + EnergyUpTo(g, h, n - 1)
\* sum over the included degrees of g^2 + h^2
Energy(g, h) == EnergyUpTo(g, h, MatSize - 1)

\* log_posterior(d_obs,phi_obs,theta_obs,g,h,Pnmi,ell_max) for oracle kind
log_posterior(kind, g, h) ==
  IF kind = "flat" THEN Fin(-6)
  ELSE IF Energy(g, h) > OverflowAt
       THEN (IF kind = "gauss" THEN NInf ELSE NaN)
       ELSE Fin(0 - Half(Energy(g, h)))

\* grad_posterior(d_obs,phi_obs,theta_obs,g,h,Pnmi,ell_max) for oracle kind,
\* an array of shape (2,Nc,Nc)
grad_posterior(kind, g, h) ==
  IF kind = "zero" THEN ZeroArr
  ELSE IF kind = "slope"
  THEN [q \in 0..(Size - 1) |-> IF q = At(0, 2, 1) THEN -2 ELSE 0]
  ELSE [q \in 0..(Size - 1) |->
          IF InTriangle(q % MatSize)
          THEN 0 - (IF q < MatSize THEN g[q] ELSE h[q - MatSize])
          ELSE 0]

\* --------------------------------------------------------------- draws
Unit(q, x) == [n \in 0..(Size - 1) |-> IF n = q THEN x ELSE 0]
Uniform(x) == [n \in 0..(Size - 1) |-> x]

\* Values of np.random.randn(2*Nc*Nc).reshape(2,Nc,Nc).
MomentumDraws ==
  {Unit(At(0, 2, 1), 2), Unit(At(0, 0, 1), 2), Uniform(2)}

\* Values of np.log(np.random.random(1)): the draw lies in [0,1), so its
\* logarithm is negative, and -inf for a draw of 0.
LogUDraws == {NInf, Fin(-8), Fin(-1)}

\* Values of np.random.rand(): 0 or e^x with x < 0.
UDraws == {Fin(0), ExpOf(-8), ExpOf(-1)}

\* The entries the Metropolis-Hastings loops run over: 1 <= n <= ell_max,
\* 0 <= m <= n.
MHTriangle(q) == InTriangle(q) /\ Degree(q) >= 1

UnitMat(q, x) == [n \in 0..(MatSize - 1) |-> IF n = q THEN x ELSE 0]
UniformMat(x) == [n \in 0..(MatSize - 1) |-> x]

\* Values of the perturbations sigma*np.random.randn() of one proposal, as a
\* pair of arrays (for g, for h) read at the entries the loops visit.
MHDraws ==
  {<<UnitMat(MatAt(1, 1), 2), ZeroMat>>,
   <<UnitMat(MatAt(2, 1), 2), ZeroMat>>,
   <<ZeroMat, UnitMat(MatAt(2, 2), 2)>>,
   <<UniformMat(2), UniformMat(2)>>}

\* Leap-frog time increments.
DtValues == {0, 2}

\* Initial model vectors: zero outside the triangle, near the ground truth
\* inside it.
InitModel(a, b) ==
  [q \in 0..(Size - 1) |->
     IF q = At(0, 1, 1) THEN a ELSE IF q = At(0, 2, 1) THEN b ELSE 0]
InitModels == {InitModel(0, 0), InitModel(2, -4)}

\* ------------------------------------------------------- big-step HMC
\* One pass of the leap-frog loop body, carrying J.
LeapBody(gk, st) ==
  LET p1 == VSub(st.p, VScale(Half(st.dt), st.J))
      m1 == VAdd(st.m, VScale(st.dt, p1))
      J1 == VNeg(grad_posterior(gk, Slice(m1, 0), Slice(m1, 1)))
      p2 == VSub(p1, VScale(Half(st.dt), J1))
  IN [m |-> m1, p |-> p2, J |-> J1, dt |-> st.dt]

RECURSIVE LeapLoop(_, _, _)
LeapLoop(gk, st, n) == IF n = 0 THEN st ELSE LeapLoop(gk, LeapBody(gk, st), n - 1)

\* The leap-frog iteration: (m_prop, p_prop) after Nt passes.
LeapFrog(gk, m0, p0, nt, step) ==
  LeapLoop(gk,
           [m |-> m0, p |-> p0, dt |-> step,
            J |-> VNeg(grad_posterior(gk, Slice(m0, 0), Slice(m0, 1)))],
           nt)

\* The HMC Metropolis rule in logarithmic form: r >= log(u).
HMCAccepts(h0, hp, lu) == FGe(FMinimum(Fin(0), FSub(h0, hp)), lu)

\* One whole iteration of the HMC loop on (m, accept, s1, s2).
HMCIteration(lk, gk, nt, step, st, pd, lu) ==
  LET h0 == FAdd(FNeg(log_posterior(lk, Slice(st.m, 0), Slice(st.m, 1))),
                 Fin(Half(Dot(pd, pd))))
      lf == LeapFrog(gk, st.m, pd, nt, step)
      hp == FAdd(FNeg(log_posterior(lk, Slice(lf.m, 0), Slice(lf.m, 1))),
                 Fin(Half(Dot(lf.p, lf.p))))
      ok == HMCAccepts(h0, hp, lu)
      mn == IF ok THEN lf.m ELSE st.m
  IN [m |-> mn,
      accept |-> IF ok THEN st.accept + 1 ELSE st.accept,
      s1 |-> Append(st.s1, mn[At(0, 2, 1)]),
      s2 |-> Append(st.s2, mn[At(0, 1, 1)])]

\* ------------------------------------------------------------- state
\* ------------------------------------------ effective sample size
\* A quotient num/den of integers; den = 0 stands for a division by 0.0.
Ratio(a, b) == [num |-> a, den |-> b]
SameRatio(a, b) == a.num * b.den = b.num * a.den

RECURSIVE SumUpTo(_, _)
SumUpTo(s, n) == IF n = 0 THEN 0 ELSE SumUpTo(s, n - 1) + s[n]

\* s-np.mean(s), every entry scaled by len(s) to stay an integer; the scale
\* cancels in the normalised auto-correlation.
Centred(s) == [i \in 1..Len(s) |-> Len(s) * s[i] - SumUpTo(s, Len(s))]

RECURSIVE LagSumUpTo(_, _, _)
LagSumUpTo(d, lag, n) ==
  IF n = 0 THEN 0 ELSE LagSumUpTo(d, lag, n - 1) + d[n] * d[n + lag]

\* np.correlate(d,d,'full')/np.sum(d**2) cut to [N-1:]: entry i+1 of num over
\* den is cc[i]; den = 0 makes every entry 0.0/0.0 = nan.
Autocorrelation(s) ==
  LET d == Centred(s)
  IN  [num |-> [i \in 1..Len(s) |-> LagSumUpTo(d, i - 1, Len(s) - (i - 1))],
       den |-> LagSumUpTo(d, 0, Len(s))]
NoCorrelation == [num |-> <<>>, den |-> 0]

\* cc[i]+cc[i+1]>0.0, False on nan.
PairPositive(cc, i) == cc.den # 0 /\ cc.num[i + 1] + cc.num[i + 2] > 0

\* The loop "for i in range(n): if (cc[i]+cc[i+1]>0.0): Neff+=cc[i]",
\* as the numerator over cc.den.
RECURSIVE NeffSum(_, _)
NeffSum(cc, n) ==
  IF n = 0 THEN 0
  ELSE NeffSum(cc, n - 1) + (IF PairPositive(cc, n - 1) THEN cc.num[n] ELSE 0)

\* Neff=N/(1.0+2.0*Neff) after the loop over range(N-1).
EffectiveSampleSize(cc, n) ==
  IF cc.den = 0 THEN Ratio(n, 1)
  ELSE Ratio(n * cc.den, cc.den + 2 * NeffSum(cc, n - 1))

\* ------------------------------------------ PhaseNet evaluation cell
NDev == 2
NTrain == 2
NWindows == 2
Rows(n) == 0..(n - 1)

\* generator[i]: a randomly placed window of row i and its labels.
Sample(set, i, w) == [X |-> <<set, i, w>>, y |-> <<"labels", <<set, i, w>>>>]
NoSample == [X |-> <<>>, y |-> <<>>]
dev_generator == {Sample("dev", i, w) : i \in Rows(NDev), w \in Rows(NWindows)}
train_generator == {Sample("train", i, w) : i \in Rows(NTrain), w \in Rows(NWindows)}

\* model(X) without gradients: the scores the network gives waveform X.
model(X) == <<"scores", X>>

\* ------------------------------------------ PhaseNet training
NTrainBatches == 2
NDevBatches == 2
epochs == 2

\* The orders in which a shuffling loader hands out its n batches.
Orders(n) ==
  {f \in [1..n -> 1..n] : \A i, j \in 1..n : f[i] = f[j] => i = j}

\* model(batch["X"]): the output for batch b of a loader under the weights
\* that w optimizer steps have produced.
Forward(set, b, w) == [set |-> set, batch |-> b, version |-> Len(w)]
NoPred == [set |-> "none", batch |-> 0, version |-> 0]

\* loss_fn(pred, batch["y"]): a scalar that depends on the batch and on the
\* weights the prediction was made with.
loss_fn(pr) == 10 * pr.batch + pr.version

VARIABLES
  algo,          \* which notebook runs: "HMC" or "MH"
  pc,            \* position in the sampling cell
  N, Nt, dt,     \* sampling parameters
  theta_obs, phi_obs,     \* colatitude and longitude of the observation points
  Pnmi, d_obs,   \* precomputed Legendre functions and the observations
  lpKind, gradKind, \* the oracles in use
  it,            \* position of the sample loop in range(0,N)
  m,             \* model vector, shape (2,Nc,Nc)
  p, U, K, H,    \* momentum and current energies
  m_prop, p_prop, J, k,   \* leap-frog state
  U_prop, K_prop, H_prop, \* proposed energies
  r, logu,       \* log acceptance ratio and np.log(np.random.random(1))
  accept, s1, s2,         \* accepted moves and the two sample chains
  gradLog,       \* positions at which this iteration evaluated the gradient
  m_start, accept_start,  \* m and accept when the iteration started
  m_init,        \* the coefficients the run started from
  runs,          \* executions of the sampling cell since the initialisation cell
  granted,       \* iterations of all executions of the sampling cell so far
  accepted,      \* whether the last Metropolis rule took the move
  exec2,         \* a second execution fed the same draws
  g, h,          \* Metropolis-Hastings: current coefficients, shape (Nc,Nc)
  g_prop, h_prop,         \* Metropolis-Hastings: proposal buffers
  rho, rho_prop, \* Metropolis-Hastings: log-posterior of current and proposal
  u,             \* Metropolis-Hastings: np.random.rand()
  shared,        \* Metropolis-Hastings: g, h are the array objects g_prop, h_prop
  cc1, cc2,      \* auto-correlations of the two chains
  Neff1, Neff2,  \* effective sample sizes of the two chains
  sample, y_pred,         \* PhaseNet evaluation: drawn sample and prediction
  x, y_true,     \* PhaseNet evaluation: plotted waveform and labels
  waveform_index, metadata, \* PhaseNet evaluation: row index and plotted metadata
  t,             \* PhaseNet training: epoch index
  order, batch_id,        \* batches of train_loader as enumerated, and the index
  weights,       \* model parameters: the gradients the optimizer has applied
  grads,         \* the .grad buffers: loss gradients accumulated since zeroed
  pred, loss,    \* last prediction and last training loss
  ops, steps,    \* operations on the current batch; optimizer steps of this call
  test_loss, tb, \* test_loop: running sum and number of batches read
  reported       \* test_loop: the printed average

hmcTemps == <<p, U, K, H, m_prop, p_prop, J, k, U_prop, K_prop, H_prop, r, logu>>
obs == <<theta_obs, phi_obs, Pnmi, d_obs>>
essVars == <<cc1, cc2, Neff1, Neff2>>
evalVars == <<sample, y_pred, x, y_true, waveform_index, metadata>>
trainVars == <<t, order, batch_id, weights, grads, pred, loss, ops, steps,
               test_loss, tb, reported>>
post == <<essVars, evalVars, trainVars>>
params == <<algo, N, Nt, dt, lpKind, gradKind, obs, m_init, runs, granted>>
aux == <<gradLog, m_start, accept_start, accepted, exec2>>
mhVars == <<g, h, g_prop, h_prop, rho, rho_prop, u, shared>>
vars == <<pc, params, it, m, hmcTemps, accept, s1, s2, aux, mhVars>>

gradU(a) == VNeg(grad_posterior(gradKind, Slice(a, 0), Slice(a, 1)))
logPost(a) == log_posterior(lpKind, Slice(a, 0), Slice(a, 1))
potential(a) == FNeg(logPost(a))
kinetic(a) == Fin(Half(Dot(a, a)))

\* The observation points, the table precomputed from them and the
\* artificial observations, as they stand when the sampling cell starts.
ObsPoints == [theta |-> <<1, 2>>, phi |-> <<3, 5>>]
ObsTable == <<1, 2>>
ObsData == <<4, -2>>

Init ==
  /\ algo \in {"HMC", "MH", "EVAL", "TRAIN"}
  /\ theta_obs = ObsPoints.theta /\ phi_obs = ObsPoints.phi
  /\ Pnmi = ObsTable /\ d_obs = ObsData
  /\ IF algo \in {"EVAL", "TRAIN"} THEN N = 0 /\ lpKind = "flat"
                      ELSE N \in 0..MaxN /\ lpKind \in LpKinds
  /\ \E m0 \in (IF algo \in {"EVAL", "TRAIN"} THEN {ZeroArr} ELSE InitModels) :
       /\ m_init = m0
       /\ IF algo = "HMC"
          THEN /\ Nt \in 0..MaxNt
               /\ dt \in DtValues
               /\ gradKind \in GradKinds
               /\ m = m0
               /\ g = ZeroMat /\ h = ZeroMat
               /\ rho = Fin(0)
          ELSE /\ Nt = 0 /\ dt = 0 /\ gradKind = "zero"
               /\ m = ZeroArr
               /\ IF algo = "MH"
                  THEN /\ g = Slice(m0, 0) /\ h = Slice(m0, 1)
                       /\ rho = log_posterior(lpKind, Slice(m0, 0), Slice(m0, 1))
                  ELSE /\ g = ZeroMat /\ h = ZeroMat
                       /\ rho = Fin(0)
  /\ g_prop = ZeroMat /\ h_prop = ZeroMat
  /\ rho_prop = Fin(0) /\ u = Fin(0)
  /\ shared = FALSE
  /\ runs = 1 /\ granted = N
  /\ pc = IF algo = "EVAL" THEN "eval_dev"
          ELSE IF algo = "TRAIN" THEN "epoch" ELSE "draw"
  /\ it = 0
  /\ p = ZeroArr /\ m_prop = ZeroArr /\ p_prop = ZeroArr /\ J = ZeroArr
  /\ U = Fin(0) /\ K = Fin(0) /\ H = Fin(0)
  /\ U_prop = Fin(0) /\ K_prop = Fin(0) /\ H_prop = Fin(0)
  /\ r = Fin(0) /\ logu = Fin(-1)
  /\ k = 0
  /\ accept = 0 /\ s1 = <<>> /\ s2 = <<>>
  /\ gradLog = <<>>
  /\ m_start = m /\ accept_start = 0 /\ accepted = FALSE
  /\ exec2 = [m |-> m, accept |-> 0, s1 |-> <<>>, s2 |-> <<>>]
  /\ cc1 = NoCorrelation /\ cc2 = NoCorrelation
  /\ Neff1 = Ratio(0, 1) /\ Neff2 = Ratio(0, 1)
  /\ sample = NoSample /\ y_pred = <<>> /\ x = <<>> /\ y_true = <<>>
  /\ IF algo = "EVAL" THEN waveform_index \in Rows(NTrain) ELSE waveform_index = 0
  /\ metadata = <<>>
  /\ t = 0 /\ order = <<>> /\ batch_id = 0
  /\ weights = <<>> /\ grads = <<>>
  /\ pred = NoPred /\ loss = 0
  /\ ops = <<>> /\ steps = 0
  /\ test_loss = 0 /\ tb = 0 /\ reported = Ratio(0, 1)

\* Iteration start that also adds noise to the observations.
DrawMomentumNoisyData ==
  /\ algo = "HMC" /\ pc = "draw" /\ it < N
  /\ \E pd \in MomentumDraws :
       /\ p' = pd
       /\ U' = potential(m)
       /\ K' = kinetic(pd)
       /\ H' = FAdd(potential(m), kinetic(pd))
       /\ p_prop' = pd
  /\ d_obs' = [d_obs EXCEPT ![1] = @ + 2]
  /\ m_prop' = m
  /\ J' = gradU(m)
  /\ k' = 0
  /\ gradLog' = <<m>>
  /\ m_start' = m /\ accept_start' = accept /\ accepted' = FALSE
  /\ pc' = "leap"
  /\ UNCHANGED <<algo, N, Nt, dt, lpKind, gradKind, theta_obs, phi_obs, Pnmi, m_init, runs, granted, post, it, m,
                 U_prop, K_prop, H_prop, r, logu, accept, s1, s2, exec2, mhVars>>

\* Iteration start that keeps the energy H stored by the last iteration.
DrawMomentumCarriesH ==
  /\ algo = "HMC" /\ pc = "draw" /\ it < N
  /\ \E pd \in MomentumDraws :
       /\ p' = pd
       /\ U' = potential(m)
       /\ K' = kinetic(pd)
       /\ H' = IF it = 0 THEN FAdd(potential(m), kinetic(pd)) ELSE H
       /\ p_prop' = pd
  /\ m_prop' = m
  /\ J' = gradU(m)
  /\ k' = 0
  /\ gradLog' = <<m>>
  /\ m_start' = m /\ accept_start' = accept /\ accepted' = FALSE
  /\ pc' = "leap"
  /\ UNCHANGED <<params, post, it, m, U_prop, K_prop, H_prop, r, logu, accept, s1, s2,
                 exec2, mhVars>>

\* Lines 274-286: momentum draw, current energies, copies, first gradient.
DrawMomentum ==
  /\ algo = "HMC" /\ pc = "draw" /\ it < N
  /\ \E pd \in MomentumDraws :
       /\ p' = pd
       /\ U' = potential(m)
       /\ K' = kinetic(pd)
       /\ H' = FAdd(potential(m), kinetic(pd))
       /\ p_prop' = pd
  /\ m_prop' = m
  /\ J' = gradU(m)
  /\ k' = 0
  /\ gradLog' = <<m>>
  /\ m_start' = m /\ accept_start' = accept /\ accepted' = FALSE
  /\ pc' = "leap"
  /\ UNCHANGED <<params, post, it, m, U_prop, K_prop, H_prop, r, logu, accept, s1, s2, exec2, mhVars>>

\* Leap-frog pass that updates the model vector in place.
LeapStepInPlace ==
  /\ algo = "HMC" /\ pc = "leap" /\ k < Nt
  /\ LET p1 == VSub(p_prop, VScale(Half(dt), J))
         m1 == VAdd(m_prop, VScale(dt, p1))
         J1 == gradU(m1)
     IN /\ m_prop' = m1
        /\ m' = m1
        /\ J' = J1
        /\ p_prop' = VSub(p1, VScale(Half(dt), J1))
        /\ gradLog' = Append(gradLog, m1)
  /\ k' = k + 1
  /\ UNCHANGED <<pc, params, post, it, p, U, K, H, U_prop, K_prop, H_prop, r, logu,
                 accept, s1, s2, m_start, accept_start, accepted, exec2, mhVars>>

\* Leap-frog pass that reuses the first gradient instead of re-evaluating it.
LeapStepStaleJ ==
  /\ algo = "HMC" /\ pc = "leap" /\ k < Nt
  /\ LET p1 == VSub(p_prop, VScale(Half(dt), J))
         m1 == VAdd(m_prop, VScale(dt, p1))
     IN /\ m_prop' = m1
        /\ p_prop' = VSub(p1, VScale(Half(dt), J))
  /\ k' = k + 1
  /\ UNCHANGED <<pc, params, post, it, m, p, U, K, H, J, U_prop, K_prop, H_prop, r, logu,
                 accept, s1, s2, gradLog, m_start, accept_start, accepted, exec2,
                 mhVars>>

\* Leap-frog pass whose position update forgets the time increment.
LeapStepNoDt ==
  /\ algo = "HMC" /\ pc = "leap" /\ k < Nt
  /\ LET p1 == VSub(p_prop, VScale(Half(dt), J))
         m1 == VAdd(m_prop, p1)
         J1 == gradU(m1)
     IN /\ m_prop' = m1
        /\ J' = J1
        /\ p_prop' = VSub(p1, VScale(Half(dt), J1))
        /\ gradLog' = Append(gradLog, m1)
  /\ k' = k + 1
  /\ UNCHANGED <<pc, params, post, it, m, p, U, K, H, U_prop, K_prop, H_prop, r, logu,
                 accept, s1, s2, m_start, accept_start, accepted, exec2, mhVars>>

\* Leap-frog pass without the second half step of the momentum.
LeapStepOneKick ==
  /\ algo = "HMC" /\ pc = "leap" /\ k < Nt
  /\ LET p1 == VSub(p_prop, VScale(Half(dt), J))
         m1 == VAdd(m_prop, VScale(dt, p1))
         J1 == gradU(m1)
     IN /\ m_prop' = m1
        /\ J' = J1
        /\ p_prop' = p1
        /\ gradLog' = Append(gradLog, m1)
  /\ k' = k + 1
  /\ UNCHANGED <<pc, params, post, it, m, p, U, K, H, U_prop, K_prop, H_prop, r, logu,
                 accept, s1, s2, m_start, accept_start, accepted, exec2, mhVars>>

\* Lines 288-293: one pass of the leap-frog loop.
LeapStep ==
  /\ algo = "HMC" /\ pc = "leap" /\ k < Nt
  /\ LET p1 == VSub(p_prop, VScale(Half(dt), J))
         m1 == VAdd(m_prop, VScale(dt, p1))
         J1 == gradU(m1)
     IN /\ m_prop' = m1
        /\ J' = J1
        /\ p_prop' = VSub(p1, VScale(Half(dt), J1))
        /\ gradLog' = Append(gradLog, m1)
  /\ k' = k + 1
  /\ UNCHANGED <<pc, params, post, it, m, p, U, K, H, U_prop, K_prop, H_prop, r, logu,
                 accept, s1, s2, m_start, accept_start, accepted, exec2, mhVars>>

\* Proposal energies whose total leaves out the potential energy.
EvalProposalKineticOnly ==
  /\ algo = "HMC" /\ pc = "leap" /\ k >= Nt
  /\ U_prop' = potential(m_prop)
  /\ K_prop' = kinetic(p_prop)
  /\ H_prop' = kinetic(p_prop)
  /\ pc' = "rule"
  /\ UNCHANGED <<params, post, it, m, p, U, K, H, m_prop, p_prop, J, k, r, logu,
                 accept, s1, s2, aux, mhVars>>

\* Lines 298-300: energies of the proposal.
EvalProposal ==
  /\ algo = "HMC" /\ pc = "leap" /\ k >= Nt
  /\ U_prop' = potential(m_prop)
  /\ K_prop' = kinetic(p_prop)
  /\ H_prop' = FAdd(potential(m_prop), kinetic(p_prop))
  /\ pc' = "rule"
  /\ UNCHANGED <<params, post, it, m, p, U, K, H, m_prop, p_prop, J, k, r, logu,
                 accept, s1, s2, aux, mhVars>>

\* Metropolis rule with a strict comparison r > log(u).
MetropolisRuleStrict ==
  /\ algo = "HMC" /\ pc = "rule"
  /\ \E lu \in LogUDraws :
       /\ logu' = lu
       /\ r' = FMinimum(Fin(0), FSub(H, H_prop))
       /\ IF FGt(FMinimum(Fin(0), FSub(H, H_prop)), lu)
          THEN /\ m' = m_prop
               /\ H' = H_prop
               /\ accept' = accept + 1
               /\ accepted' = TRUE
          ELSE /\ UNCHANGED <<m, H, accept>>
               /\ accepted' = FALSE
  /\ pc' = "collect"
  /\ UNCHANGED <<params, post, it, p, U, K, m_prop, p_prop, J, k, U_prop, K_prop, H_prop,
                 s1, s2, gradLog, m_start, accept_start, exec2, mhVars>>

\* Metropolis rule that counts an accepted move twice.
MetropolisRuleCountsTwice ==
  /\ algo = "HMC" /\ pc = "rule"
  /\ \E lu \in LogUDraws :
       /\ logu' = lu
       /\ r' = FMinimum(Fin(0), FSub(H, H_prop))
       /\ IF FGe(FMinimum(Fin(0), FSub(H, H_prop)), lu)
          THEN /\ m' = m_prop
               /\ H' = H_prop
               /\ accept' = accept + 2
               /\ accepted' = TRUE
          ELSE /\ UNCHANGED <<m, H, accept>>
               /\ accepted' = FALSE
  /\ pc' = "collect"
  /\ UNCHANGED <<params, post, it, p, U, K, m_prop, p_prop, J, k, U_prop, K_prop, H_prop,
                 s1, s2, gradLog, m_start, accept_start, exec2, mhVars>>

\* Metropolis rule that tests a draw taken outside the seeded stream.
MetropolisRuleUnseeded ==
  /\ algo = "HMC" /\ pc = "rule"
  /\ \E lu \in LogUDraws, other \in LogUDraws :
       /\ logu' = lu
       /\ r' = FMinimum(Fin(0), FSub(H, H_prop))
       /\ IF FGe(FMinimum(Fin(0), FSub(H, H_prop)), other)
          THEN /\ m' = m_prop
               /\ H' = H_prop
               /\ accept' = accept + 1
               /\ accepted' = TRUE
          ELSE /\ UNCHANGED <<m, H, accept>>
               /\ accepted' = FALSE
  /\ pc' = "collect"
  /\ UNCHANGED <<params, post, it, p, U, K, m_prop, p_prop, J, k, U_prop, K_prop, H_prop,
                 s1, s2, gradLog, m_start, accept_start, exec2, mhVars>>

\* Metropolis rule that compares the unclipped energy difference.
MetropolisRuleNoClip ==
  /\ algo = "HMC" /\ pc = "rule"
  /\ \E lu \in LogUDraws :
       /\ logu' = lu
       /\ r' = FSub(H, H_prop)
       /\ IF FGe(FSub(H, H_prop), lu)
          THEN /\ m' = m_prop
               /\ H' = H_prop
               /\ accept' = accept + 1
               /\ accepted' = TRUE
          ELSE /\ UNCHANGED <<m, H, accept>>
               /\ accepted' = FALSE
  /\ pc' = "collect"
  /\ UNCHANGED <<params, post, it, p, U, K, m_prop, p_prop, J, k, U_prop, K_prop, H_prop,
                 s1, s2, gradLog, m_start, accept_start, exec2, mhVars>>

\* Metropolis rule with the two energies of the difference exchanged.
MetropolisRuleSwapped ==
  /\ algo = "HMC" /\ pc = "rule"
  /\ \E lu \in LogUDraws :
       /\ logu' = lu
       /\ r' = FMinimum(Fin(0), FSub(H_prop, H))
       /\ IF FGe(FMinimum(Fin(0), FSub(H_prop, H)), lu)
          THEN /\ m' = m_prop
               /\ H' = H_prop
               /\ accept' = accept + 1
               /\ accepted' = TRUE
          ELSE /\ UNCHANGED <<m, H, accept>>
               /\ accepted' = FALSE
  /\ pc' = "collect"
  /\ UNCHANGED <<params, post, it, p, U, K, m_prop, p_prop, J, k, U_prop, K_prop, H_prop,
                 s1, s2, gradLog, m_start, accept_start, exec2, mhVars>>

\* Metropolis rule that moves to the proposal whatever the decision.
MetropolisRuleAlwaysMoves ==
  /\ algo = "HMC" /\ pc = "rule"
  /\ \E lu \in LogUDraws :
       /\ logu' = lu
       /\ r' = FMinimum(Fin(0), FSub(H, H_prop))
       /\ m' = m_prop
       /\ IF FGe(FMinimum(Fin(0), FSub(H, H_prop)), lu)
          THEN /\ H' = H_prop
               /\ accept' = accept + 1
               /\ accepted' = TRUE
          ELSE /\ UNCHANGED <<H, accept>>
               /\ accepted' = FALSE
  /\ pc' = "collect"
  /\ UNCHANGED <<params, post, it, p, U, K, m_prop, p_prop, J, k, U_prop, K_prop, H_prop,
                 s1, s2, gradLog, m_start, accept_start, exec2, mhVars>>

\* Metropolis rule that rejects a proposal of unchanged energy.
MetropolisRuleRejectsTies ==
  /\ algo = "HMC" /\ pc = "rule"
  /\ \E lu \in LogUDraws :
       /\ logu' = lu
       /\ r' = FMinimum(Fin(0), FSub(H, H_prop))
       /\ IF FGe(FMinimum(Fin(0), FSub(H, H_prop)), lu) /\ H_prop # H
          THEN /\ m' = m_prop
               /\ H' = H_prop
               /\ accept' = accept + 1
               /\ accepted' = TRUE
          ELSE /\ UNCHANGED <<m, H, accept>>
               /\ accepted' = FALSE
  /\ pc' = "collect"
  /\ UNCHANGED <<params, post, it, p, U, K, m_prop, p_prop, J, k, U_prop, K_prop, H_prop,
                 s1, s2, gradLog, m_start, accept_start, exec2, mhVars>>

\* Lines 303-309: the HMC Metropolis rule.
MetropolisRule ==
  /\ algo = "HMC" /\ pc = "rule"
  /\ \E lu \in LogUDraws :
       /\ logu' = lu
       /\ r' = FMinimum(Fin(0), FSub(H, H_prop))
       /\ IF FGe(FMinimum(Fin(0), FSub(H, H_prop)), lu)
          THEN /\ m' = m_prop
               /\ H' = H_prop
               /\ accept' = accept + 1
               /\ accepted' = TRUE
          ELSE /\ UNCHANGED <<m, H, accept>>
               /\ accepted' = FALSE
  /\ pc' = "collect"
  /\ UNCHANGED <<params, post, it, p, U, K, m_prop, p_prop, J, k, U_prop, K_prop, H_prop,
                 s1, s2, gradLog, m_start, accept_start, exec2, mhVars>>

\* Sample collection that stores a sample only for an accepted move.
CollectOnAccept ==
  /\ algo = "HMC" /\ pc = "collect"
  /\ s1' = IF accepted THEN Append(s1, m[At(0, 2, 1)]) ELSE s1
  /\ s2' = IF accepted THEN Append(s2, m[At(0, 1, 1)]) ELSE s2
  /\ it' = it + 1
  /\ exec2' = HMCIteration(lpKind, gradKind, Nt, dt, exec2, p, logu)
  /\ pc' = "draw"
  /\ UNCHANGED <<params, post, m, hmcTemps, accept, gradLog, m_start, accept_start, accepted, mhVars>>

\* Sample collection that rewrites the whole chain with the current value.
CollectOverwrites ==
  /\ algo = "HMC" /\ pc = "collect"
  /\ s1' = [n \in 1..(Len(s1) + 1) |-> m[At(0, 2, 1)]]
  /\ s2' = [n \in 1..(Len(s2) + 1) |-> m[At(0, 1, 1)]]
  /\ it' = it + 1
  /\ exec2' = HMCIteration(lpKind, gradKind, Nt, dt, exec2, p, logu)
  /\ pc' = "draw"
  /\ UNCHANGED <<params, post, m, hmcTemps, accept, gradLog, m_start, accept_start, accepted, mhVars>>

\* Sample collection that stores the proposal instead of the current state.
CollectProposal ==
  /\ algo = "HMC" /\ pc = "collect"
  /\ s1' = Append(s1, m_prop[At(0, 2, 1)])
  /\ s2' = Append(s2, m_prop[At(0, 1, 1)])
  /\ it' = it + 1
  /\ exec2' = HMCIteration(lpKind, gradKind, Nt, dt, exec2, p, logu)
  /\ pc' = "draw"
  /\ UNCHANGED <<params, post, m, hmcTemps, accept, gradLog, m_start, accept_start, accepted, mhVars>>

\* Lines 313-314: collect the samples; the loop moves to its next index.
Collect ==
  /\ algo = "HMC" /\ pc = "collect"
  /\ s1' = Append(s1, m[At(0, 2, 1)])
  /\ s2' = Append(s2, m[At(0, 1, 1)])
  /\ it' = it + 1
  /\ exec2' = HMCIteration(lpKind, gradKind, Nt, dt, exec2, p, logu)
  /\ pc' = "draw"
  /\ UNCHANGED <<params, post, m, hmcTemps, accept, gradLog, m_start, accept_start, accepted, mhVars>>

\* Line 271: range(0,N) is exhausted.
Finish ==
  /\ algo = "HMC" /\ pc = "draw" /\ it >= N
  /\ pc' = "done"
  /\ UNCHANGED <<params, post, it, m, hmcTemps, accept, s1, s2, aux, mhVars>>

\* Proposal that perturbs every entry of the two arrays.
MHProposeFullArray ==
  /\ algo = "MH" /\ pc = "draw" /\ it < N
  /\ \E d \in MHDraws :
       LET gp == [q \in 0..(MatSize - 1) |-> g[q] + d[1][q]]
           hp == [q \in 0..(MatSize - 1) |-> h[q] + d[2][q]]
       IN /\ g_prop' = gp
          /\ h_prop' = hp
          /\ g' = IF shared THEN gp ELSE g
          /\ h' = IF shared THEN hp ELSE h
          /\ rho_prop' = log_posterior(lpKind, gp, hp)
  /\ m_start' = Stack(g, h)
  /\ accept_start' = accept /\ accepted' = FALSE
  /\ pc' = "rule"
  /\ UNCHANGED <<params, post, it, m, hmcTemps, accept, s1, s2, gradLog, exec2,
                 rho, u, shared>>

\* Lines 795-801: write the proposal into the buffers, in place, and
\* evaluate it.
MHPropose ==
  /\ algo = "MH" /\ pc = "draw" /\ it < N
  /\ \E d \in MHDraws :
       LET gp == [q \in 0..(MatSize - 1) |->
                    IF MHTriangle(q) THEN g[q] + d[1][q] ELSE g_prop[q]]
           hp == [q \in 0..(MatSize - 1) |->
                    IF MHTriangle(q) THEN h[q] + d[2][q] ELSE h_prop[q]]
       IN /\ g_prop' = gp
          /\ h_prop' = hp
          /\ g' = IF shared THEN gp ELSE g
          /\ h' = IF shared THEN hp ELSE h
          /\ rho_prop' = log_posterior(lpKind, gp, hp)
  /\ m_start' = Stack(g, h)
  /\ accept_start' = accept /\ accepted' = FALSE
  /\ pc' = "rule"
  /\ UNCHANGED <<params, post, it, m, hmcTemps, accept, s1, s2, gradLog, exec2,
                 rho, u, shared>>

\* Metropolis-Hastings rule with the ratio of the current to the proposal.
MHRuleSwapped ==
  /\ algo = "MH" /\ pc = "rule"
  /\ \E ud \in UDraws :
       /\ u' = ud
       /\ r' = np_exp(FSub(rho, rho_prop))
       /\ IF PGt(np_exp(FSub(rho, rho_prop)), ud)
          THEN /\ g' = g_prop
               /\ h' = h_prop
               /\ shared' = FALSE
               /\ rho' = rho_prop
               /\ accept' = accept + 1
               /\ accepted' = TRUE
          ELSE /\ UNCHANGED <<g, h, rho, accept, shared>>
               /\ accepted' = FALSE
  /\ pc' = "collect"
  /\ UNCHANGED <<params, post, it, m, p, U, K, H, m_prop, p_prop, J, k, U_prop, K_prop,
                 H_prop, logu, s1, s2, gradLog, m_start, accept_start, exec2,
                 g_prop, h_prop, rho_prop>>

\* Metropolis-Hastings rule that binds g, h to the proposal buffers
\* themselves instead of copies.
MHRuleNoCopy ==
  /\ algo = "MH" /\ pc = "rule"
  /\ \E ud \in UDraws :
       /\ u' = ud
       /\ r' = np_exp(FSub(rho_prop, rho))
       /\ IF PGt(np_exp(FSub(rho_prop, rho)), ud)
          THEN /\ g' = g_prop
               /\ h' = h_prop
               /\ shared' = TRUE
               /\ rho' = rho_prop
               /\ accept' = accept + 1
               /\ accepted' = TRUE
          ELSE /\ UNCHANGED <<g, h, rho, accept, shared>>
               /\ accepted' = FALSE
  /\ pc' = "collect"
  /\ UNCHANGED <<params, post, it, m, p, U, K, H, m_prop, p_prop, J, k, U_prop, K_prop,
                 H_prop, logu, s1, s2, gradLog, m_start, accept_start, exec2,
                 g_prop, h_prop, rho_prop>>

\* Metropolis-Hastings rule that keeps the cached rho on a move.
MHRuleStaleRho ==
  /\ algo = "MH" /\ pc = "rule"
  /\ \E ud \in UDraws :
       /\ u' = ud
       /\ r' = np_exp(FSub(rho_prop, rho))
       /\ IF PGt(np_exp(FSub(rho_prop, rho)), ud)
          THEN /\ g' = g_prop
               /\ h' = h_prop
               /\ shared' = FALSE
               /\ accept' = accept + 1
               /\ accepted' = TRUE
               /\ UNCHANGED rho
          ELSE /\ UNCHANGED <<g, h, rho, accept, shared>>
               /\ accepted' = FALSE
  /\ pc' = "collect"
  /\ UNCHANGED <<params, post, it, m, p, U, K, H, m_prop, p_prop, J, k, U_prop, K_prop,
                 H_prop, logu, s1, s2, gradLog, m_start, accept_start, exec2,
                 g_prop, h_prop, rho_prop>>

\* Lines 804-813: Metropolis ratio and Metropolis rule; g_prop.copy() and
\* h_prop.copy() are new array objects.
MHRule ==
  /\ algo = "MH" /\ pc = "rule"
  /\ \E ud \in UDraws :
       /\ u' = ud
       /\ r' = np_exp(FSub(rho_prop, rho))
       /\ IF PGt(np_exp(FSub(rho_prop, rho)), ud)
          THEN /\ g' = g_prop
               /\ h' = h_prop
               /\ shared' = FALSE
               /\ rho' = rho_prop
               /\ accept' = accept + 1
               /\ accepted' = TRUE
          ELSE /\ UNCHANGED <<g, h, rho, accept, shared>>
               /\ accepted' = FALSE
  /\ pc' = "collect"
  /\ UNCHANGED <<params, post, it, m, p, U, K, H, m_prop, p_prop, J, k, U_prop, K_prop,
                 H_prop, logu, s1, s2, gradLog, m_start, accept_start, exec2,
                 g_prop, h_prop, rho_prop>>

\* Lines 817-818: collect the samples; the loop moves to its next index.
MHCollect ==
  /\ algo = "MH" /\ pc = "collect"
  /\ s1' = Append(s1, g[MatAt(2, 1)])
  /\ s2' = Append(s2, g[MatAt(1, 1)])
  /\ it' = it + 1
  /\ pc' = "draw"
  /\ UNCHANGED <<params, post, m, hmcTemps, accept, aux, mhVars>>

\* Line 793: range(0,N) is exhausted.
MHFinish ==
  /\ algo = "MH" /\ pc = "draw" /\ it >= N
  /\ pc' = "done"
  /\ UNCHANGED <<params, post, it, m, hmcTemps, accept, s1, s2, aux, mhVars>>

\* Lines 385-407 and 890-912: auto-correlations and effective sample sizes
\* of the two chains; np.correlate raises on empty chains.
EffectiveSampleSizeCell ==
  /\ algo \in {"HMC", "MH"} /\ pc = "done" /\ N >= 1
  /\ cc1' = Autocorrelation(s1)
  /\ cc2' = Autocorrelation(s2)
  /\ Neff1' = EffectiveSampleSize(Autocorrelation(s1), N)
  /\ Neff2' = EffectiveSampleSize(Autocorrelation(s2), N)
  /\ pc' = "ess"
  /\ UNCHANGED <<params, evalVars, trainVars, it, m, hmcTemps, accept, s1, s2, aux, mhVars>>

\* Line 595: sample = dev_generator[np.random.randint(len(dev_generator))].
EvalDrawDev ==
  /\ algo = "EVAL" /\ pc = "eval_dev"
  /\ sample' \in dev_generator
  /\ pc' = "eval_pred"
  /\ UNCHANGED <<params, essVars, trainVars, y_pred, x, y_true, waveform_index, metadata,
                 it, m, hmcTemps, accept, s1, s2, aux, mhVars>>

\* Lines 597-599: y_pred = model(sample["X"]) under torch.no_grad().
EvalPredict ==
  /\ algo = "EVAL" /\ pc = "eval_pred"
  /\ y_pred' = model(sample.X)
  /\ pc' = "eval_train"
  /\ UNCHANGED <<params, essVars, trainVars, sample, x, y_true, waveform_index, metadata,
                 it, m, hmcTemps, accept, s1, s2, aux, mhVars>>

\* Line 601: sample = train_generator[np.random.randint(len(train_generator))].
EvalDrawTrain ==
  /\ algo = "EVAL" /\ pc = "eval_train"
  /\ sample' \in train_generator
  /\ pc' = "eval_plot"
  /\ UNCHANGED <<params, essVars, trainVars, y_pred, x, y_true, waveform_index, metadata,
                 it, m, hmcTemps, accept, s1, s2, aux, mhVars>>

\* Lines 602-607: metadata, x and y_true are taken and the three are plotted.
EvalPlot ==
  /\ algo = "EVAL" /\ pc = "eval_plot"
  /\ metadata' = <<"train", waveform_index>>
  /\ x' = sample.X
  /\ y_true' = sample.y
  /\ pc' = "eval_done"
  /\ UNCHANGED <<params, essVars, trainVars, sample, y_pred, waveform_index,
                 it, m, hmcTemps, accept, s1, s2, aux, mhVars>>

\* Lines 566-568 and 512-513: an epoch begins and train_loop starts to
\* enumerate the shuffled train_loader.
TrainLoopStart ==
  /\ algo = "TRAIN" /\ pc = "epoch" /\ t < epochs
  /\ order' \in Orders(NTrainBatches)
  /\ batch_id' = 0 /\ steps' = 0 /\ ops' = <<>>
  /\ pc' = "train_next"
  /\ UNCHANGED <<params, essVars, evalVars, it, m, hmcTemps, accept, s1, s2, aux, mhVars,
                 t, weights, grads, pred, loss, test_loss, tb, reported>>

\* Line 515: pred = model(batch["X"]) for the next batch.
TrainForward ==
  /\ algo = "TRAIN" /\ pc = "train_next" /\ batch_id < Len(order)
  /\ pred' = Forward("train", order[batch_id + 1], weights)
  /\ ops' = <<"forward">>
  /\ pc' = "train_loss"
  /\ UNCHANGED <<params, essVars, evalVars, it, m, hmcTemps, accept, s1, s2, aux, mhVars,
                 t, order, batch_id, weights, grads, loss, steps, test_loss, tb, reported>>

\* Line 516: loss = loss_fn(pred, batch["y"]).
TrainLoss ==
  /\ algo = "TRAIN" /\ pc = "train_loss"
  /\ loss' = loss_fn(pred)
  /\ ops' = Append(ops, "loss")
  /\ pc' = "train_zero"
  /\ UNCHANGED <<params, essVars, evalVars, it, m, hmcTemps, accept, s1, s2, aux, mhVars,
                 t, order, batch_id, weights, grads, pred, steps, test_loss, tb, reported>>

\* Backpropagation that leaves the gradient buffers as they are.
ZeroGradSkipped ==
  /\ algo = "TRAIN" /\ pc = "train_zero"
  /\ ops' = Append(ops, "zero_grad")
  /\ pc' = "train_backward"
  /\ UNCHANGED <<params, essVars, evalVars, it, m, hmcTemps, accept, s1, s2, aux, mhVars,
                 t, order, batch_id, weights, grads, pred, loss, steps, test_loss, tb, reported>>

\* Line 519: optimizer.zero_grad().
ZeroGrad ==
  /\ algo = "TRAIN" /\ pc = "train_zero"
  /\ grads' = <<>>
  /\ ops' = Append(ops, "zero_grad")
  /\ pc' = "train_backward"
  /\ UNCHANGED <<params, essVars, evalVars, it, m, hmcTemps, accept, s1, s2, aux, mhVars,
                 t, order, batch_id, weights, pred, loss, steps, test_loss, tb, reported>>

\* Line 520: loss.backward() adds the gradient of this loss to the buffers.
Backward ==
  /\ algo = "TRAIN" /\ pc = "train_backward"
  /\ grads' = Append(grads, pred)
  /\ ops' = Append(ops, "backward")
  /\ pc' = "train_step"
  /\ UNCHANGED <<params, essVars, evalVars, it, m, hmcTemps, accept, s1, s2, aux, mhVars,
                 t, order, batch_id, weights, pred, loss, steps, test_loss, tb, reported>>

\* Lines 521-525: optimizer.step() applies the buffers; the progress line
\* is printed; the enumeration moves on.
OptimizerStep ==
  /\ algo = "TRAIN" /\ pc = "train_step"
  /\ weights' = Append(weights, grads)
  /\ steps' = steps + 1
  /\ batch_id' = batch_id + 1
  /\ ops' = Append(ops, "step")
  /\ pc' = "train_next"
  /\ UNCHANGED <<params, essVars, evalVars, it, m, hmcTemps, accept, s1, s2, aux, mhVars,
                 t, order, grads, pred, loss, test_loss, tb, reported>>

\* Lines 569 and 529-530: train_loader is exhausted, train_loop returns and
\* test_loop starts on dev_loader.
TestLoopStart ==
  /\ algo = "TRAIN" /\ pc = "train_next" /\ batch_id >= Len(order)
  /\ test_loss' = 0 /\ tb' = 0
  /\ pc' = "test_next"
  /\ UNCHANGED <<params, essVars, evalVars, it, m, hmcTemps, accept, s1, s2, aux, mhVars,
                 t, order, batch_id, weights, grads, pred, loss, ops, steps, reported>>

\* Test batch whose loss replaces the running sum.
TestBatchKeepsLast ==
  /\ algo = "TRAIN" /\ pc = "test_next" /\ tb < NDevBatches
  /\ pred' = Forward("dev", tb + 1, weights)
  /\ test_loss' = loss_fn(Forward("dev", tb + 1, weights))
  /\ tb' = tb + 1
  /\ UNCHANGED <<params, essVars, evalVars, it, m, hmcTemps, accept, s1, s2, aux, mhVars,
                 pc, t, order, batch_id, weights, grads, loss, ops, steps, reported>>

\* Lines 532-535: under torch.no_grad(), the next batch of dev_loader (not
\* shuffled) is predicted and its loss added to test_loss.
TestBatch ==
  /\ algo = "TRAIN" /\ pc = "test_next" /\ tb < NDevBatches
  /\ pred' = Forward("dev", tb + 1, weights)
  /\ test_loss' = test_loss + loss_fn(Forward("dev", tb + 1, weights))
  /\ tb' = tb + 1
  /\ UNCHANGED <<params, essVars, evalVars, it, m, hmcTemps, accept, s1, s2, aux, mhVars,
                 pc, t, order, batch_id, weights, grads, loss, ops, steps, reported>>

\* Lines 537-538: test_loss /= num_batches is printed; the epoch ends.
TestReport ==
  /\ algo = "TRAIN" /\ pc = "test_next" /\ tb >= NDevBatches
  /\ reported' = Ratio(test_loss, NDevBatches)
  /\ t' = t + 1
  /\ pc' = "epoch"
  /\ UNCHANGED <<params, essVars, evalVars, it, m, hmcTemps, accept, s1, s2, aux, mhVars,
                 order, batch_id, weights, grads, pred, loss, ops, steps, test_loss, tb>>

\* Line 566: range(epochs) is exhausted.
TrainingDone ==
  /\ algo = "TRAIN" /\ pc = "epoch" /\ t >= epochs
  /\ pc' = "trained"
  /\ UNCHANGED <<params, essVars, evalVars, it, m, hmcTemps, accept, s1, s2, aux, mhVars,
                 trainVars>>

Next ==
  \/ DrawMomentum
  \/ LeapStep
  \/ EvalProposal
  \/ MetropolisRule
  \/ Collect
  \/ Finish
  \/ MHPropose
  \/ MHRule
  \/ MHCollect
  \/ MHFinish
  \/ EffectiveSampleSizeCell
  \/ EvalDrawDev
  \/ EvalPredict
  \/ EvalDrawTrain
  \/ EvalPlot
  \/ TrainLoopStart
  \/ TrainForward
  \/ TrainLoss
  \/ ZeroGrad
  \/ Backward
  \/ OptimizerStep
  \/ TestLoopStart
  \/ TestBatch
  \/ TestReport
  \/ TrainingDone

Spec == Init /\ [][Next]_vars

\* ------------------------------------- re-executing notebook cells
MaxRuns == 2
MaxTotal == 4

\* Sampling cell executed again that empties the accumulators first.
RerunSamplingCellResets ==
  /\ algo = "HMC" /\ pc = "done"
  /\ runs < MaxRuns /\ granted + N <= MaxTotal
  /\ runs' = runs + 1 /\ granted' = granted + N
  /\ it' = 0
  /\ accept' = 0 /\ s1' = <<>> /\ s2' = <<>>
  /\ pc' = "draw"
  /\ UNCHANGED <<algo, N, Nt, dt, lpKind, gradKind, obs, m_init, post, m, hmcTemps,
                 aux, mhVars>>

\* Lines 268-317 executed again: the loop restarts at it = 0 with the m,
\* accept, s1 and s2 the kernel holds.
RerunSamplingCell ==
  /\ algo = "HMC" /\ pc = "done"
  /\ runs < MaxRuns /\ granted + N <= MaxTotal
  /\ runs' = runs + 1 /\ granted' = granted + N
  /\ it' = 0
  /\ pc' = "draw"
  /\ UNCHANGED <<algo, N, Nt, dt, lpKind, gradKind, obs, m_init, post, m, hmcTemps,
                 accept, s1, s2, aux, mhVars>>

\* Lines 254-259 executed again: accept=0, s1=[], s2=[].
InitialisationCell ==
  /\ algo = "HMC" /\ pc = "done" /\ runs > 0
  /\ accept' = 0 /\ s1' = <<>> /\ s2' = <<>>
  /\ runs' = 0
  /\ UNCHANGED <<algo, N, Nt, dt, lpKind, gradKind, obs, m_init, granted, post, pc, it, m,
                 hmcTemps, aux, mhVars>>

\* The executions start from one setting of the sampler.
InitRerun ==
  /\ Init
  /\ algo = "HMC" /\ lpKind = "gauss" /\ gradKind = "linear"
  /\ Nt = 1 /\ dt = 2

NextRerun ==
  \/ DrawMomentum
  \/ LeapStep
  \/ EvalProposal
  \/ MetropolisRule
  \/ Collect
  \/ Finish
  \/ RerunSamplingCell
  \/ InitialisationCell

SpecRerun == InitRerun /\ [][NextRerun]_vars

\* ------------------------------------------------------------ claims

\* C1: when the sampling loop of either notebook has terminated after a
\* start from accept = 0, s1 = s2 = [], each chain holds exactly N entries.
C1_ChainLengthIsN == pc = "done" => (Len(s1) = N /\ Len(s2) = N)

\* A finished run of two iterations, one accepted and one rejected.
C1_Witness == pc = "done" /\ N = 2 /\ Len(s1) = 2 /\ accept = 1

\* C2 as stated: in every reachable state of the HMC loop accept is at most
\* the number of completed iterations, which is at most N; accept grows by at
\* most one per iteration and never shrinks.
C2_AcceptAtMostCompleted ==
  /\ [](algo = "HMC" => (accept <= it /\ it <= N))
  /\ [][algo = "HMC" => (accept' >= accept /\ accept' <= accept_start' + 1)]_vars

\* C2 amended: accept is at most the number of completed iterations at every
\* position of the loop except between the Metropolis rule and the sample
\* collection, where it is at most the number of started iterations; it never
\* exceeds N, grows by at most one per iteration and never shrinks.
C2_AcceptAtMostStarted ==
  /\ [](algo = "HMC" =>
          /\ it <= N /\ accept <= N
          /\ accept <= (IF pc = "collect" THEN it + 1 ELSE it))
  /\ [][algo = "HMC" => (accept' >= accept /\ accept' <= accept_start' + 1)]_vars

\* Every iteration so far was accepted and the last one is not yet collected.
C2_Witness == algo = "HMC" /\ pc = "collect" /\ it = 1 /\ accept = 2

\* C3: the Metropolis rule takes the move exactly when log(u) <= H - H_prop,
\* and the code's test min(0, H - H_prop) >= log(u) accepts the same triples.
C3_AcceptIffLogULeDiff ==
  [][(algo = "HMC" /\ pc = "rule") =>
       /\ (accept' = accept + 1) <=> FLe(logu', FSub(H, H_prop))
       /\ (m' = m_prop /\ accept' = accept + 1) \/ (m' = m /\ accept' = accept)
       /\ HMCAccepts(H, H_prop, logu') <=> FLe(logu', FSub(H, H_prop))]_vars

\* A move taken on the boundary log(u) = H - H_prop < 0.
C3_Witness ==
  /\ algo = "HMC" /\ pc = "collect" /\ accepted
  /\ logu = Fin(-8) /\ r = Fin(-8)

\* C4: the leap-frog passes never write into m; a rejected iteration leaves m
\* and accept as they were when it started, an accepted one makes m equal
\* to m_prop and adds exactly 1 to accept.
C4_RejectKeepsAcceptMoves ==
  algo = "HMC" =>
    /\ pc \in {"leap", "rule"} => (m = m_start /\ accept = accept_start)
    /\ (pc = "collect" /\ ~accepted) => (m = m_start /\ accept = accept_start)
    /\ (pc = "collect" /\ accepted) => (m = m_prop /\ accept = accept_start + 1)

\* A rejected iteration whose leap-frog integration moved the proposal.
C4_Witness ==
  /\ algo = "HMC" /\ pc = "collect" /\ ~accepted
  /\ Nt = 2 /\ m_prop # m_start /\ it = 1 /\ accept = 1

\* C5: a proposal whose energy difference H - H_prop is NaN, +inf or -inf is
\* not accepted, whatever the uniform draw; m and accept are unchanged.
C5_NonFiniteDiffRejected ==
  (algo = "HMC" /\ pc = "collect" /\ ~IsFinite(FSub(FAdd(U, K), H_prop))) =>
    (~accepted /\ m = m_start /\ accept = accept_start)

C7_TriangleKept ==
  algo = "HMC" =>
    \A q \in 0..(Size - 1) : ~InTriangle(q % MatSize) => m[q] = 0

\* C8: the log acceptance ratio r = min(0, H - H_prop) that is compared with
\* log(u) is never greater than 0.
C8_LogRatioNotPositive == algo = "HMC" => ~FGt(r, Fin(0))

\* A proposal of lower energy, whose ratio was clipped to 0.
C8_Witness ==
  /\ algo = "HMC" /\ pc = "collect" /\ r = Fin(0)
  /\ FGt(FSub(FAdd(U, K), H_prop), Fin(0))

\* The reference leap-frog step, evaluating the gradient at both positions.
RefStep(st) ==
  LET p1 == VSub(st.p, VScale(Half(dt), gradU(st.m)))
      m2 == VAdd(st.m, VScale(dt, p1))
  IN [m |-> m2, p |-> VSub(p1, VScale(Half(dt), gradU(m2)))]

RECURSIVE RefSteps(_, _)
RefSteps(st, n) == IF n = 0 THEN st ELSE RefStep(RefSteps(st, n - 1))

\* C9: for Nt >= 1 the pair (m_prop, p_prop) of an iteration is the result
\* of Nt reference leap-frog steps from (m, p); the gradient is evaluated
\* Nt + 1 times, first at m and then at each position just produced.
C9_LeapFrogIsReference ==
  (algo = "HMC" /\ pc = "rule" /\ Nt >= 1) =>
    /\ m_prop = RefSteps([m |-> m, p |-> p], Nt).m
    /\ p_prop = RefSteps([m |-> m, p |-> p], Nt).p
    /\ Len(gradLog) = Nt + 1
    /\ gradLog[1] = m
    /\ \A n \in 1..Nt : gradLog[n + 1] = RefSteps([m |-> m, p |-> p], n).m

\* Two passes under a gradient that is not zero, with a moving proposal.
C9_Witness ==
  /\ algo = "HMC" /\ pc = "rule" /\ Nt = 2 /\ dt = 2 /\ gradKind = "linear"
  /\ m_prop # m /\ J # ZeroArr /\ Len(gradLog) = 3

\* C10: under a gradient oracle that is zero everywhere, p_prop = p,
\* m_prop = m + Nt*dt*p, K_prop = K and H - H_prop = U - U_prop, and the
\* move is taken exactly when log(u) <= log_posterior(m_prop) -
\* log_posterior(m), the random-walk Metropolis rule.
C10_ZeroGradientIsRandomWalk ==
  (algo = "HMC" /\ gradKind = "zero") =>
    /\ pc = "rule" =>
         /\ p_prop = p
         /\ m_prop = VAdd(m, VScale(Nt * dt, p))
         /\ K_prop = K
         /\ FSub(H, H_prop) = FSub(U, U_prop)
    /\ pc = "collect" =>
         (accepted <=>
            FLe(logu, FSub(logPost(m_prop), logPost(m_start))))

\* A random-walk move of two passes that was taken under the Gaussian target.
C10_Witness ==
  /\ algo = "HMC" /\ gradKind = "zero" /\ lpKind = "gauss" /\ pc = "collect"
  /\ Nt = 2 /\ dt = 2 /\ accepted /\ m_prop # m_start

\* C11: under a log-posterior oracle that is constant everywhere the
\* potential terms cancel, H - H_prop = K - K_prop, and the move is taken
\* exactly when log(u) <= K - K_prop.
C11_FlatTargetComparesKinetic ==
  (algo = "HMC" /\ lpKind = "flat") =>
    /\ pc = "rule" => (U_prop = U /\ FSub(H, H_prop) = FSub(K, K_prop))
    /\ pc = "collect" => (accepted <=> FLe(logu, FSub(K, K_prop)))

\* A rejected proposal of higher kinetic energy under the constant target.
C11_Witness ==
  /\ algo = "HMC" /\ lpKind = "flat" /\ pc = "collect" /\ ~accepted
  /\ FBelow(K, K_prop) /\ U # Fin(0) /\ m_prop # m

\* A step that leaves both chains as they are.
KeepsChains == s1' = s1 /\ s2' = s2 /\ it' = it

\* A step that completes an iteration by appending one entry to each chain.
AppendsOne ==
  /\ it' = it + 1
  /\ Len(s1') = Len(s1) + 1 /\ SubSeq(s1', 1, Len(s1)) = s1
  /\ Len(s2') = Len(s2) + 1 /\ SubSeq(s2', 1, Len(s2)) = s2

\* C12: during a sampling run of either notebook the chains s1 and s2 only
\* grow by appending: every iteration appends exactly one entry to each, and
\* no step changes or removes an entry already in a chain.
C12_ChainsAppendOnly ==
  /\ [](algo \in {"HMC", "MH"} => (Len(s1) = it /\ Len(s2) = it))
  /\ [][(algo \in {"HMC", "MH"}) => (KeepsChains \/ AppendsOne)]_vars

\* Two collected samples that differ, in each chain.
C12_Witness ==
  /\ algo = "HMC" /\ Len(s1) = 2 /\ s1[1] # s1[2] /\ s2[1] # s2[2]

\* C13: at every iteration boundary of the HMC loop, after it completed
\* iterations, both chains have it entries, accept <= it, and for it >= 1
\* the last entries are the tracked coefficients m[0,2,1] and m[0,1,1].
C13_BoundaryStateConsistent ==
  (algo = "HMC" /\ pc \in {"draw", "done"}) =>
    /\ Len(s1) = it /\ Len(s2) = it
    /\ accept <= it
    /\ it >= 1 => (s1[it] = m[At(0, 2, 1)] /\ s2[it] = m[At(0, 1, 1)])

\* The boundary after an accepted move followed by a rejected one that had
\* proposed a different tracked coefficient.
C13_Witness ==
  /\ algo = "HMC" /\ pc = "draw" /\ it = 2 /\ accept = 1 /\ ~accepted
  /\ m_prop[At(0, 2, 1)] # m[At(0, 2, 1)] /\ s1[1] = s1[2]

\* C14: no step of the HMC sampling loop changes the observations d_obs,
\* the observation coordinates phi_obs and theta_obs, the precomputed Pnmi or
\* the parameters Nt, dt, N (ell_max is a constant of the model).
C14_InputsUnchanged ==
  [][algo = "HMC" => UNCHANGED <<d_obs, phi_obs, theta_obs, Pnmi, Nt, dt, N>>]_vars

\* A finished run of two accepted moves with the inputs as they started.
C14_Witness ==
  /\ algo = "HMC" /\ pc = "done" /\ N = 2 /\ accept = 2 /\ Nt = 2 /\ dt = 2
  /\ d_obs = ObsData /\ Pnmi = ObsTable

\* C15 as stated: the plotted prediction y_pred is the model output for the
\* plotted waveform x, whose labels are y_true, and x is a sample of the
\* development set.
C15_PredictionMatchesPlottedDevSample ==
  (algo = "EVAL" /\ pc = "eval_done") =>
    /\ y_pred = model(x)
    /\ \E s \in dev_generator : x = s.X /\ y_true = s.y

\* The reference of C16: N/(1 + 2 * sum of rho_t over t >= 1), the sum cut at
\* the first lag t whose pair rho_t + rho_(t+1) is not positive.
RECURSIVE GelmanSum(_, _, _)
GelmanSum(cc, lag, n) ==
  IF lag + 1 <= n - 1 /\ PairPositive(cc, lag)
  THEN cc.num[lag + 1] + GelmanSum(cc, lag + 1, n)
  ELSE 0
GelmanESS(cc, n) ==
  IF cc.den = 0 THEN Ratio(n, 1)
  ELSE Ratio(n * cc.den, cc.den + 2 * GelmanSum(cc, 1, n))
IsDelta(cc) == cc.den # 0 /\ \A i \in 2..Len(cc.num) : cc.num[i] = 0

\* C16 as stated: the printed effective sample size of each chain is the
\* reference estimate, and it is N when the auto-correlation is 1 at lag 0
\* and 0 at every other lag.
C16_ESSIsGelmanEstimate ==
  pc = "ess" =>
    /\ SameRatio(Neff1, GelmanESS(cc1, N))
    /\ SameRatio(Neff2, GelmanESS(cc2, N))
    /\ IsDelta(cc1) => SameRatio(Neff1, Ratio(N, 1))
    /\ IsDelta(cc2) => SameRatio(Neff2, Ratio(N, 1))

\* C17: every HMC iteration starts from a freshly drawn momentum and takes
\* its current energy from the current m and that momentum: while the
\* trajectory is integrated and when the rule is applied, U = U(m),
\* K = K(p) and H = U(m) + K(p); the trajectory starts at (m, p); the step
\* that opens an iteration sets p to a draw and leaves m alone.
C17_FreshMomentumAndEnergy ==
  /\ [](algo = "HMC" /\ pc \in {"leap", "rule"} =>
          /\ U = potential(m) /\ K = kinetic(p)
          /\ H = FAdd(potential(m), kinetic(p))
          /\ (pc = "leap" /\ k = 0) => (p_prop = p /\ m_prop = m))
  /\ [][(algo = "HMC" /\ pc = "draw" /\ pc' = "leap") =>
          /\ p' \in MomentumDraws /\ m' = m
          /\ H' = FAdd(potential(m), kinetic(p'))]_vars

\* An iteration opens after an accepted move whose stored energy and
\* end-of-trajectory momentum differ from the fresh ones.
C17_Witness ==
  /\ algo = "HMC" /\ pc = "leap" /\ k = 0 /\ it >= 1 /\ accept = it
  /\ IsFinite(H_prop) /\ H # H_prop /\ m # m_init

\* C18: an HMC proposal with finite H_prop <= H is accepted whatever the
\* uniform draw is, log(u) = -infinity included.
C18_NoIncreaseAlwaysAccepted ==
  [][(algo = "HMC" /\ pc = "rule" /\ IsFinite(H_prop) /\ FLe(H_prop, H)) =>
       (accept' = accept + 1 /\ m' = m_prop)]_vars

\* A move that lowers the energy is accepted on a draw of u = 0.
C18_Witness ==
  /\ algo = "HMC" /\ pc = "collect" /\ accepted /\ logu = NInf
  /\ IsFinite(H_prop) /\ FBelow(H_prop, FAdd(U, K)) /\ m # m_start

\* The number of places where a chain differs from its previous entry.
Changes(s) == Cardinality({n \in 2..Len(s) : s[n] # s[n - 1]})
Constant(s, v) == \A n \in 1..Len(s) : s[n] = v

\* C19: the chains change only on acceptance: a rejected iteration repeats
\* the previous entry of s1 and of s2, the number of changes in a chain is at
\* most accept, and a finished run with accept = 0 holds the initial value of
\* the tracked coefficient in every entry.
C19_ChainChangesOnlyOnAccept ==
  /\ [][(algo = "HMC" /\ pc = "collect" /\ ~accepted /\ it >= 1) =>
          (s1'[it + 1] = s1[it] /\ s2'[it + 1] = s2[it])]_vars
  /\ [](algo = "HMC" => (Changes(s1) <= accept /\ Changes(s2) <= accept))
  /\ [](algo = "HMC" /\ pc = "done" /\ accept = 0 =>
          /\ Constant(s1, m_init[At(0, 2, 1)])
          /\ Constant(s2, m_init[At(0, 1, 1)]))

\* A finished run whose only change in s1 is its one accepted move, the
\* rejected proposal having differed from the state.
C19_Witness ==
  /\ algo = "HMC" /\ pc = "done" /\ N = 2 /\ accept = 1 /\ ~accepted
  /\ Changes(s1) = 0 /\ s1[1] # m_init[At(0, 2, 1)]
  /\ m_prop[At(0, 2, 1)] # m[At(0, 2, 1)]

\* C20: a Metropolis-Hastings proposal is accepted exactly when
\* exp(rho_prop - rho) > u for the iteration's draw u, so always when
\* rho_prop >= rho; an accepted proposal becomes g, h, rho and adds 1 to
\* accept, a rejected one leaves g, h, rho and accept alone.
C20_MHRule ==
  [][(algo = "MH" /\ pc = "rule") =>
       /\ (accept' = accept + 1) <=> PGt(np_exp(FSub(rho_prop, rho)), u')
       /\ FGe(rho_prop, rho) => accept' = accept + 1
       /\ accept' = accept + 1 =>
            (g' = g_prop /\ h' = h_prop /\ rho' = rho_prop)
       /\ accept' # accept + 1 => UNCHANGED <<g, h, rho, accept>>]_vars

\* A proposal of higher log-posterior was accepted on a draw of e^-1, after
\* an earlier proposal had been rejected.
C20_Witness ==
  /\ algo = "MH" /\ pc = "collect" /\ accepted /\ u = ExpOf(-1)
  /\ r # PInf /\ r # Fin(0) /\ ~IsNaN(r) /\ r.v > 0
  /\ g = g_prop /\ rho = rho_prop /\ it = 1 /\ accept = 1

\* C21: in the Metropolis-Hastings loop the cached rho is the log-posterior
\* of the current (g, h) at the start of the loop and after every iteration,
\* accepted or rejected.
C21_RhoIsLogPosteriorOfState ==
  (algo = "MH" /\ pc \in {"draw", "collect", "done"}) =>
    rho = log_posterior(lpKind, g, h)

\* After an accepted and then a rejected proposal the cached rho is neither
\* the initial one nor the last proposal's.
C21_Witness ==
  /\ algo = "MH" /\ pc = "draw" /\ it = 2 /\ accept = 1 /\ ~accepted
  /\ rho # logPost(m_init) /\ rho # rho_prop /\ g # g_prop

\* C22: the in-place writes to g_prop and h_prop never change g or h, also
\* right after an acceptance, and a rejected proposal leaves every entry of
\* g and h as it was when the iteration started.
C22_StateNeverAliasesBuffers ==
  /\ [](algo = "MH" => ~shared)
  /\ [][(algo = "MH" /\ pc = "draw") => (g' = g /\ h' = h)]_vars
  /\ [](algo = "MH" /\ (pc = "rule" \/ (pc = "collect" /\ ~accepted)) =>
          (g = Slice(m_start, 0) /\ h = Slice(m_start, 1)))

\* The iteration after an accepted move rejected a proposal that differs
\* from the state in g and in h.
C22_Witness ==
  /\ algo = "MH" /\ pc = "collect" /\ ~accepted /\ it = 1 /\ accept = 1
  /\ g # g_prop /\ h # h_prop /\ g # Slice(m_init, 0)

\* C23: in a Metropolis-Hastings run every entry of g and h outside
\* 1 <= n <= ell_max, 0 <= m <= n is 0 in every reachable state, and no
\* step changes such an entry.
C23_MHTriangleOnly ==
  /\ [](algo = "MH" =>
          \A q \in 0..(MatSize - 1) : ~MHTriangle(q) => (g[q] = 0 /\ h[q] = 0))
  /\ [][(algo = "MH") =>
          \A q \in 0..(MatSize - 1) :
            ~MHTriangle(q) => (g'[q] = g[q] /\ h'[q] = h[q])]_vars

\* A move that changed every coefficient of the triangle was accepted.
C23_Witness ==
  /\ algo = "MH" /\ pc = "collect" /\ accepted
  /\ \A q \in 0..(MatSize - 1) :
       MHTriangle(q) => (g[q] # Slice(m_init, 0)[q] /\ h[q] # 0)

\* C24: the leap-frog iteration is time-reversible: the passes made so far,
\* applied to (m_prop, -p_prop), lead back to (m, -p), for each of the
\* gradient oracles.
C24_LeapFrogReversible ==
  (algo = "HMC" /\ pc \in {"leap", "rule"}) =>
    LET back == LeapFrog(gradKind, m_prop, VNeg(p_prop), k, dt)
    IN  back.m = m /\ back.p = VNeg(p)

\* Two passes under a position-dependent gradient moved m and p.
C24_Witness ==
  /\ algo = "HMC" /\ pc = "rule" /\ Nt = 2 /\ k = 2 /\ dt = 2
  /\ gradKind = "linear" /\ J # ZeroArr /\ m_prop # m /\ p_prop # VNeg(p)

\* C25: with Nt = 0 or dt = 0 the proposal is the current state with the
\* same energy, so from a start of finite potential every proposal is
\* accepted: after the loop accept = N and the N entries of each chain are
\* the initial tracked coefficient.
C25_NoMotionAlwaysAccepted ==
  (algo = "HMC" /\ (Nt = 0 \/ dt = 0)) =>
    /\ pc = "rule" => (m_prop = m /\ p_prop = p /\ H_prop = H)
    /\ (pc = "done" /\ IsFinite(potential(m_init))) =>
         /\ accept = N
         /\ Len(s1) = N /\ Constant(s1, m_init[At(0, 2, 1)])
         /\ Len(s2) = N /\ Constant(s2, m_init[At(0, 1, 1)])

\* Two iterations of two passes with dt = 0 under a non-zero gradient.
C25_Witness ==
  /\ algo = "HMC" /\ pc = "done" /\ N = 2 /\ Nt = 2 /\ dt = 0 /\ accept = 2
  /\ gradKind = "linear" /\ J # ZeroArr /\ m_init[At(0, 2, 1)] # 0
  /\ p # ZeroArr /\ p_prop = p

\* C26: the sampling cell never resets its accumulators: each execution
\* appends N entries to s1 and to s2 and adds at most N to accept, so after j
\* executions since the initialisation cell len(s1) = len(s2) = j*N and
\* accept <= j*N; only the initialisation cell empties s1, s2 and zeroes
\* accept.
C26_AccumulatorsNeverReset ==
  /\ [](pc = "done" =>
          (Len(s1) = runs * N /\ Len(s2) = runs * N /\ accept <= runs * N))
  /\ [](runs >= 1 => (Len(s1) = (runs - 1) * N + it /\ Len(s2) = Len(s1)))
  /\ [][(Len(s1') < Len(s1) \/ Len(s2') < Len(s2) \/ accept' < accept) =>
          (runs' = 0 /\ pc = "done" /\ accept' = 0 /\ s1' = <<>> /\ s2' = <<>>)]_vars
  /\ [][(pc = "done" /\ pc' = "draw") =>
          (m' = m /\ accept' = accept /\ s1' = s1 /\ s2' = s2)]_vars

\* The second execution of the cell has finished, continuing from a state
\* and a count the first one left.
C26_Witness ==
  /\ pc = "done" /\ runs = 2 /\ N = 2 /\ Len(s1) = 4 /\ accept = 3
  /\ s1[2] # s1[3] /\ s1[1] # m_init[At(0, 2, 1)]

\* C27: train_loop handles every batch in the order forward pass, loss,
\* zero_grad, backward, step, with one optimizer step per batch, each from
\* the gradient of that batch's loss alone; a call makes len(dataloader)
\* steps, one for each batch of the loader, and test_loop of an epoch runs
\* on the validation loader only after train_loop has finished.
C27_TrainLoopOrder ==
  /\ [](algo = "TRAIN" =>
          /\ (pc = "train_next" /\ batch_id >= 1) =>
               ops = <<"forward", "loss", "zero_grad", "backward", "step">>
          /\ pc \in {"train_next", "test_next"} =>
               /\ steps = batch_id
               /\ Len(weights) = t * NTrainBatches + steps
               /\ \A i \in 1..steps :
                    weights[t * NTrainBatches + i] =
                      <<[set |-> "train", batch |-> order[i],
                         version |-> t * NTrainBatches + i - 1]>>
          /\ pc = "test_next" =>
               /\ steps = NTrainBatches
               /\ {order[i] : i \in 1..steps} = 1..NTrainBatches
               /\ tb >= 1 => pred.set = "dev"
          /\ pc \in {"epoch", "trained"} => Len(weights) = t * NTrainBatches)
  /\ [][(algo = "TRAIN" /\ weights' # weights) =>
          /\ pc = "train_step" /\ steps' = steps + 1
          /\ weights' = Append(weights, <<pred>>)
          /\ pred = Forward("train", order[batch_id + 1], weights)]_vars

\* All epochs are done, the last one on a loader that handed out its batches
\* in another order than they are stored.
C27_Witness ==
  /\ algo = "TRAIN" /\ pc = "trained" /\ t = epochs
  /\ Len(weights) = epochs * NTrainBatches /\ order[1] # 1
  /\ ops = <<"forward", "loss", "zero_grad", "backward", "step">>

\* The sum of the losses of the first n batches of dev_loader under weights w.
RECURSIVE DevLossSum(_, _)
DevLossSum(n, w) ==
  IF n = 0 THEN 0 ELSE DevLossSum(n - 1, w) + loss_fn(Forward("dev", n, w))

\* C28: test_loop makes no backward pass and no optimizer step, and reports
\* the sum of the losses of the batches of its loader, each counted once,
\* divided by the number of batches.
C28_TestLoopOnlyEvaluates ==
  /\ [][(algo = "TRAIN" /\ pc = "test_next") =>
          UNCHANGED <<weights, grads, steps, ops>>]_vars
  /\ [](algo = "TRAIN" /\ pc = "test_next" =>
          (tb <= NDevBatches /\ test_loss = DevLossSum(tb, weights)))
  /\ [][(algo = "TRAIN" /\ pc = "test_next" /\ pc' = "epoch") =>
          /\ tb = NDevBatches
          /\ reported' = Ratio(DevLossSum(NDevBatches, weights), NDevBatches)]_vars

\* The last epoch reported the average over the validation batches under
\* the fully trained weights.
C28_Witness ==
  /\ algo = "TRAIN" /\ pc = "epoch" /\ t = epochs /\ tb = NDevBatches
  /\ Len(weights) = epochs * NTrainBatches
  /\ reported = Ratio(DevLossSum(NDevBatches, weights), NDevBatches)
  /\ reported.num > NDevBatches * Len(weights)

TypeOK ==
  /\ pc \in {"draw", "leap", "rule", "collect", "done", "ess",
            "eval_dev", "eval_pred", "eval_train", "eval_plot", "eval_done",
            "epoch", "train_next", "train_loss", "train_zero", "train_backward",
            "train_step", "test_next", "trained"}
  /\ it \in 0..N
  /\ Len(s1) = Len(s2)
====
